---- MODULE Spec2Model ----
(***************************************************************************)
(* Model of sulley/serial_connection.py: class SerialConnection, the       *)
(* message framing of recv() over a serial-like transport, and the retry   *)
(* loop of send().                                                         *)
(*                                                                         *)
(* Time is counted in ticks of half a millisecond, so that the fixed poll  *)
(* floor .001 s of line 84 is Floor == 2 ticks and configured timeouts can *)
(* lie below (1 tick) and above (3 ticks) the floor.                       *)
(*                                                                         *)
(* The module is Python 2 (implicit relative imports on lines 2-3, str     *)
(* payloads in the docstring): None orders below every number, which is    *)
(* what min() on line 84 sees.  None is the integer -1 here, below every   *)
(* duration, so the integer minimum is Python 2's min().                   *)
(***************************************************************************)
EXTENDS Integers, Sequences, FiniteSets, TLC

\* ---------------------------------------------------------------- bounds
MaxBytes == 3
MaxWire == 3
MaxTime == 4
MaxBlock == 3
MaxReads == 2
MaxSend == 3
MaxConcSend == 2
ConcMaxBytes == 2
ScenarioMaxBytes == 10

\* ------------------------------------------------------------- constants
None == -1
Floor == 2
NL == 10

\* the payload alphabet: the newline and one other byte ("A")
Byte == {NL, 65}
TimeoutValues == {None, 1, 3}
Checkers == {"none", "newline", "single", "frame2"}

VARIABLES
    timeout,                 \* self.timeout
    message_separator_time,  \* self.message_separator_time
    content_checker,         \* self.content_checker (by name; "none" is None)
    leftover,                \* self._leftover_bytes
    conn_timeout,            \* self._connection.timeout
    pc,                      \* position of the recv call
    max_bytes,               \* recv: parameter
    data,                    \* recv: local
    start_time,              \* recv: local
    last_byte_time,          \* recv: local
    cur_time,                \* recv: local
    ret,                     \* value of the last completed recv
    reason,                  \* which return statement ended the last recv
    clock,                   \* time.time(), counted from the start of the call
    wire,                    \* every byte the raw reads have handed over, in order
    returned,                \* concatenation of every value recv has returned
    carry0,                  \* the carryover the current call started with
    reads,                   \* raw reads of the current call (saturating)
    last_arrival,            \* clock at the last raw read that delivered bytes
    quiet,                   \* no raw read of this call outlasted Floor
    trickle,                 \* no raw read of this call has returned message_separator_time
                             \* or more after the last arrival (or the start of the call)
    spc,                     \* position of the send call
    sdata,                   \* send: parameter
    bytes_sent,              \* send: local
    sret,                    \* value of the last completed send
    tx,                      \* the bytes the transport accepted from the current send
    raw_sends,               \* raw sends of the current send call (saturating)
    conn_open,               \* the transport is open
    logger,                  \* self._logger ("none" is None)
    kept                     \* << stage, carryover at the last close() >>: stage 1 closed,
                             \* 2 opened again, 3 a recv call has started since, 0 otherwise

vars == << timeout, message_separator_time, content_checker, leftover,
           conn_timeout, pc, max_bytes, data, start_time,
           last_byte_time, cur_time, ret, reason, clock, wire, returned,
           carry0, reads, last_arrival, quiet, trickle,
           spc, sdata, bytes_sent, sret, tx, raw_sends,
           conn_open, logger, kept >>

recvVars == << timeout, message_separator_time, content_checker, leftover,
               conn_timeout, pc, max_bytes, data, start_time,
               last_byte_time, cur_time, ret, reason, clock, wire, returned,
               carry0, reads, last_arrival, quiet, trickle >>

sendVars == << spc, sdata, bytes_sent, sret, tx, raw_sends >>

lifeVars == << conn_open, logger, kept >>

\* ---------------------------------------------------------------- helpers
Min2(a, b) == IF a <= b THEN a ELSE b

SeqsUpTo(n) == UNION { [1..k -> Byte] : k \in 0..n }

Take(s, n) == SubSeq(s, 1, Min2(n, Len(s)))

Drop(s, n) == SubSeq(s, Min2(n, Len(s)) + 1, Len(s))

\* str.find('\n'): index (from 0) of the first newline, -1 if there is none
RECURSIVE FindFrom(_, _)
FindFrom(s, i) ==
    IF i > Len(s) THEN -1
    ELSE IF s[i] = NL THEN i - 1
    ELSE FindFrom(s, i + 1)

Find(s) == FindFrom(s, 1)

\* the docstring's example checker
content_check_newline(s) == IF Find(s) >= 0 THEN Find(s) ELSE 0

\* one-byte messages
content_check_single(s) == IF Len(s) >= 1 THEN 1 ELSE 0

\* two-byte frames, announced as soon as the first byte is there (n may exceed
\* the length of the buffer)
content_check_frame2(s) == IF Len(s) >= 1 THEN 2 ELSE 0

CallChecker(name, s) ==
    CASE name = "newline" -> content_check_newline(s)
      [] name = "single" -> content_check_single(s)
      [] name = "frame2" -> content_check_frame2(s)
      [] OTHER -> 0

\* line 84: min(.001, self.message_separator_time, self.timeout)
PollTimeout(m, t) == Min2(Floor, Min2(m, t))

\* faulty variant: the carryover is forgotten when a call starts
InitialData_Empty(l) == << >>

\* line 88: the working buffer starts as the carryover
InitialData(l) == l

\* faulty variant: the carryover store is not cleared when a call takes it over
ClearedLeftover_Kept(l) == l

\* line 89: self._leftover_bytes = b''
ClearedLeftover(l) == << >>

\* line 91
LoopCond(d, mb) == Len(d) < mb

\* faulty variant: the silence timer is moved on in every iteration
UpdateTimer_Always(d, last, now) == now

\* faulty variant: the silence timer is never moved on
UpdateTimer_Never(d, last, now) == last

\* lines 93-94
UpdateTimer(d, last, now) == IF Len(d) > 0 THEN now ELSE last

\* line 97: the size asked of the raw read
ReadSize(d, mb) == mb - Len(d)

\* faulty variant: the checker is shown only the bytes read in this call
CheckerFires_Delta(name, d) ==
    name # "none" /\ CallChecker(name, Drop(d, Len(carry0))) > 0

\* line 103
CheckerFires(name, d) == name # "none" /\ CallChecker(name, d) > 0

\* faulty variant: the carryover starts one byte late
LeftoverAfter_OffByOne(d, n) == Drop(d, n + 1)

\* line 104
LeftoverAfter(d, n) == Drop(d, n)

\* faulty variant: the whole buffer is returned instead of its first n bytes
ValidBytes_Whole(d, n) == d

\* faulty variant: the slice takes in the byte at index n as well
ValidBytes_Inclusive(d, n) == Take(d, n + 1)

\* line 105
ValidBytes(d, n) == Take(d, n)

\* faulty variant: the timeout has to be exceeded, not reached
HardTimeoutElapsed_Strict(t, cur, start) == t # None /\ cur - start > t

\* line 109
HardTimeoutElapsed(t, cur, start) == t # None /\ cur - start >= t

\* faulty variant: an unset separator time is compared like a duration
SilenceElapsed_NoGuard(m, cur, last) == cur - last >= m

\* line 111
SilenceElapsed(m, cur, last) == m # None /\ cur - last >= m

\* the time since the last arrival (or the start of the call) is below m
GapBelow(m, now, last) == m = None \/ now - last < m

\* how long a raw read may take under the transport's timeout property
ReadDurations(ct) == IF ct = None THEN 0..MaxBlock ELSE 0..ct

\* line 125
SendCond(sent, d) == sent < Len(d)

\* faulty variant: every raw send is given the whole payload
SendSuffix_Whole(d, sent) == d

\* line 126: data[bytes_sent:]
SendSuffix(d, sent) == Drop(d, sent)

\* the bytes a raw send's answer stands for
Count(r) == IF r = None THEN 0 ELSE r

\* lines 127-128
AddSent(sent, r) == IF r # None THEN sent + r ELSE sent

\* ------------------------------------------------------------------- Init
Init ==
    /\ timeout \in TimeoutValues
    /\ message_separator_time \in TimeoutValues
    /\ content_checker \in Checkers
    /\ leftover = << >>
    /\ conn_timeout = None
    /\ pc = "idle"
    /\ max_bytes = 1
    /\ data = << >>
    /\ start_time = 0
    /\ last_byte_time = 0
    /\ cur_time = 0
    /\ ret = << >>
    /\ reason = "none"
    /\ clock = 0
    /\ wire = << >>
    /\ returned = << >>
    /\ carry0 = << >>
    /\ reads = 0
    /\ last_arrival = 0
    /\ quiet = TRUE
    /\ trickle = TRUE
    /\ spc = "idle"
    /\ sdata = << >>
    /\ bytes_sent = 0
    /\ sret = 0
    /\ tx = << >>
    /\ raw_sends = 0
    /\ conn_open = FALSE
    /\ logger = "none"
    /\ kept = << 0, << >> >>

Config == << timeout, message_separator_time, content_checker >>

\* a return statement of recv: the caller receives v
Return(v, why) ==
    /\ pc' = "idle"
    /\ ret' = v
    /\ reason' = why
    /\ returned' = returned \o v

\* lines 84-89
RecvCall(mb) ==
    /\ pc = "idle"
    /\ conn_timeout' = PollTimeout(message_separator_time, timeout)
    /\ clock' = 0
    /\ start_time' = 0
    /\ last_byte_time' = 0
    /\ data' = InitialData(leftover)
    /\ leftover' = ClearedLeftover(leftover)
    /\ max_bytes' = mb
    /\ pc' = "loop"
    /\ reason' = "none"
    /\ carry0' = leftover
    /\ reads' = 0
    /\ last_arrival' = 0
    /\ quiet' = TRUE
    /\ trickle' = TRUE
    /\ cur_time' = 0
    /\ kept' = IF kept[1] = 2 THEN << 3, kept[2] >> ELSE << 0, << >> >>
    /\ UNCHANGED << Config, ret, wire, returned, sendVars, conn_open, logger >>

\* lines 91-94, and line 114 when the loop ends
RecvLoop ==
    /\ pc = "loop"
    /\ IF LoopCond(data, max_bytes)
       THEN /\ last_byte_time' = UpdateTimer(data, last_byte_time, clock)
            /\ pc' = "read"
            /\ UNCHANGED << ret, reason, returned >>
       ELSE /\ Return(data, "full")
            /\ UNCHANGED last_byte_time
    /\ UNCHANGED << Config, leftover, conn_timeout, max_bytes, data,
                    start_time, cur_time, clock, wire, carry0, reads,
                    last_arrival, quiet, trickle, sendVars, lifeVars >>

\* lines 97-98: the raw read hands over frag after d ticks
RawReadEffect(frag, d) ==
    /\ data' = data \o frag
    /\ clock' = clock + d
    /\ wire' = wire \o frag
    /\ reads' = Min2(reads + 1, MaxReads)
    /\ last_arrival' = IF Len(frag) > 0 THEN clock + d ELSE last_arrival
    /\ quiet' = (quiet /\ d <= Floor)
    /\ trickle' = (trickle /\ GapBelow(message_separator_time, clock + d, last_arrival))
    /\ pc' = "check"
    /\ UNCHANGED << Config, leftover, conn_timeout, max_bytes, start_time,
                    last_byte_time, cur_time, ret, reason, returned, carry0,
                    sendVars, lifeVars >>

\* a raw read of any transport that answers with at most the size asked for
RawRead(frag, d) ==
    /\ pc = "read"
    /\ Len(frag) <= ReadSize(data, max_bytes)
    /\ Len(wire) + Len(frag) <= MaxWire
    /\ clock + d <= MaxTime
    /\ RawReadEffect(frag, d)

\* lines 100-112
RecvCheck ==
    /\ pc = "check"
    /\ IF CheckerFires(content_checker, data)
       THEN /\ leftover' = LeftoverAfter(data, CallChecker(content_checker, data))
            /\ Return(ValidBytes(data, CallChecker(content_checker, data)), "checker")
            /\ UNCHANGED cur_time
       ELSE /\ cur_time' = clock
            /\ UNCHANGED leftover
            /\ IF HardTimeoutElapsed(timeout, clock, start_time)
               THEN Return(data, "timeout")
               ELSE IF SilenceElapsed(message_separator_time, clock, last_byte_time)
                    THEN Return(data, "silence")
                    ELSE /\ pc' = "loop"
                         /\ UNCHANGED << ret, reason, returned >>
    /\ UNCHANGED << Config, conn_timeout, max_bytes, data, start_time,
                    last_byte_time, clock, wire, carry0, reads, last_arrival,
                    quiet, trickle, sendVars, lifeVars >>

\* ------------------------------------- send, open, close, set_logger
\* faulty variant: the method resets the receive buffer
ReceiverUntouched_Reset ==
    /\ leftover' = << >>
    /\ UNCHANGED << Config, conn_timeout, pc, max_bytes, data, start_time,
                    last_byte_time, cur_time, ret, reason, clock, wire, returned,
                    carry0, reads, last_arrival, quiet, trickle >>

\* faulty variant: the method makes the shared transport blocking
ReceiverUntouched_Blocking ==
    /\ conn_timeout' = None
    /\ UNCHANGED << Config, leftover, pc, max_bytes, data, start_time,
                    last_byte_time, cur_time, ret, reason, clock, wire, returned,
                    carry0, reads, last_arrival, quiet, trickle >>

\* lines 58-72 and 116-140: close, open, send and set_logger assign none of
\* the fields and locals of recv
ReceiverUntouched == UNCHANGED recvVars

\* line 124
SendCall(d) ==
    /\ spc = "idle"
    /\ sdata' = d
    /\ bytes_sent' = 0
    /\ tx' = << >>
    /\ raw_sends' = 0
    /\ spc' = "loop"
    /\ ReceiverUntouched
    /\ UNCHANGED << sret, lifeVars >>

\* line 125, and line 129 when the loop ends
SendLoop ==
    /\ spc = "loop"
    /\ IF SendCond(bytes_sent, sdata)
       THEN /\ spc' = "send"
            /\ UNCHANGED sret
       ELSE /\ spc' = "idle"
            /\ sret' = bytes_sent
    /\ ReceiverUntouched
    /\ UNCHANGED << sdata, bytes_sent, tx, raw_sends, lifeVars >>

\* lines 126-128: the raw send is given the suffix and answers r (None or a count)
RawSend(r) ==
    /\ spc = "send"
    /\ r = None \/ (0 <= r /\ r <= Len(SendSuffix(sdata, bytes_sent)))
    /\ tx' = tx \o Take(SendSuffix(sdata, bytes_sent), Count(r))
    /\ bytes_sent' = AddSent(bytes_sent, r)
    /\ raw_sends' = Min2(raw_sends + 1, MaxReads)
    /\ spc' = "loop"
    /\ ReceiverUntouched
    /\ UNCHANGED << sdata, sret, lifeVars >>

\* lines 58-64; the caller closes between calls
Close ==
    /\ pc = "idle" /\ spc = "idle"
    /\ conn_open' = FALSE
    /\ kept' = << 1, leftover >>
    /\ ReceiverUntouched
    /\ UNCHANGED << sendVars, logger >>

\* lines 66-72
Open ==
    /\ pc = "idle" /\ spc = "idle"
    /\ conn_open' = TRUE
    /\ kept' = IF kept[1] = 1 THEN << 2, kept[2] >> ELSE kept
    /\ ReceiverUntouched
    /\ UNCHANGED << sendVars, logger >>

\* lines 131-140
SetLogger(lg) ==
    /\ pc = "idle" /\ spc = "idle"
    /\ logger' = lg
    /\ ReceiverUntouched
    /\ UNCHANGED << sendVars, conn_open, kept >>

Next ==
    \/ \E mb \in 1..MaxBytes : RecvCall(mb)
    \/ RecvLoop
    \/ \E frag \in SeqsUpTo(MaxBytes) : \E d \in ReadDurations(conn_timeout) : RawRead(frag, d)
    \/ RecvCheck

Spec == Init /\ [][Next]_vars

\* ------------------------------------------------------------ failures
\* recv has no try block: an exception raised inside it ends the call, the
\* locals are gone and the fields are as the call has left them so far
Raise ==
    /\ pc' = "idle"
    /\ reason' = "raised"
    /\ UNCHANGED << Config, leftover, conn_timeout, max_bytes, data, start_time,
                    last_byte_time, cur_time, ret, clock, wire, returned, carry0,
                    reads, last_arrival, quiet, trickle, sendVars, lifeVars >>

\* line 97: the raw read raises
RawReadRaises == pc = "read" /\ Raise

\* line 102: the content checker raises
CheckerRaises == pc = "check" /\ content_checker # "none" /\ Raise

ErrNext ==
    \/ Next
    \/ RawReadRaises
    \/ CheckerRaises

\* recv with a transport and a checker that may fail
ErrSpec == Init /\ [][ErrNext]_vars

\* ------------------------------------------------------------ scenario A
\* b"AB", b"C\n", b"DEF"
ScenarioStream == << 65, 66, 67, NL, 68, 69, 70 >>

\* the chunk the scripted transport yields next, by what it has yielded so far
NextChunk(n) ==
    CASE n = 0 -> SubSeq(ScenarioStream, 1, 2)
      [] n = 2 -> SubSeq(ScenarioStream, 3, 4)
      [] n = 4 -> SubSeq(ScenarioStream, 5, 7)
      [] OTHER -> << >>

\* a raw read of the scripted transport: the next chunk, or nothing yet
ScenarioRead(frag, d) ==
    /\ pc = "read"
    /\ frag \in {<< >>, NextChunk(Len(wire))}
    /\ Len(frag) <= ReadSize(data, max_bytes)
    /\ clock + d <= MaxTime
    /\ RawReadEffect(frag, d)

ScenarioInit ==
    /\ Init
    /\ timeout = None
    /\ message_separator_time = None
    /\ content_checker = "newline"

ScenarioNext ==
    \/ RecvCall(ScenarioMaxBytes)
    \/ RecvLoop
    \/ \E frag \in {<< >>, NextChunk(Len(wire))} : \E d \in ReadDurations(conn_timeout) :
           ScenarioRead(frag, d)
    \/ RecvCheck

\* no timeouts, the docstring's newline checker, recv(10) again and again
ScenarioSpec == ScenarioInit /\ [][ScenarioNext]_vars

\* ----------------------------------------------------- the whole object
\* the payload of n bytes the caller sends
CallerPayload(n) == [i \in 1..n |-> 65]

\* a recv call on the open transport, step by step
RecvSteps ==
    \/ conn_open /\ RecvCall(ConcMaxBytes)
    \/ RecvLoop
    \/ \E frag \in SeqsUpTo(ConcMaxBytes) : \E d \in ReadDurations(conn_timeout) : RawRead(frag, d)
    \/ RecvCheck

\* a send call on the open transport, step by step
SendSteps ==
    \/ conn_open /\ \E n \in 1..MaxConcSend : SendCall(CallerPayload(n))
    \/ SendLoop
    \/ \E r \in {None} \cup (0..MaxConcSend) : RawSend(r)

\* a receiver with a hard timeout, a separator time and one-byte messages
ShortInit ==
    /\ Init
    /\ timeout = 1
    /\ message_separator_time = 1
    /\ content_checker = "single"

\* a single caller: one method at a time, in any order
LifeNext ==
    \/ spc = "idle" /\ RecvSteps
    \/ pc = "idle" /\ SendSteps
    \/ Open
    \/ Close
    \/ SetLogger("logger")

LifeSpec == ShortInit /\ [][LifeNext]_vars

\* one recv and one send in flight on the opened transport, their steps
\* interleaved at will
ConcNext ==
    \/ ~conn_open /\ Open
    \/ RecvSteps
    \/ SendSteps

ConcSpec == ShortInit /\ [][ConcNext]_vars

\* a raw read during which time passes
TimePasses == \E frag \in SeqsUpTo(MaxBytes) : \E d \in 1..MaxTime :
                 d \in ReadDurations(conn_timeout) /\ RawRead(frag, d)

AnyRawRead == \E frag \in SeqsUpTo(MaxBytes) : \E d \in ReadDurations(conn_timeout) :
                 RawRead(frag, d)

\* the calling thread runs, every raw read returns, and time does not stand
\* still over an unending run of raw reads
FairSpec ==
    /\ Spec
    /\ WF_vars(RecvLoop)
    /\ WF_vars(RecvCheck)
    /\ WF_vars(AnyRawRead)
    /\ SF_vars(TimePasses)

\* the send path on its own
SendNext ==
    \/ \E d \in SeqsUpTo(MaxSend) : SendCall(d)
    \/ SendLoop
    \/ \E r \in {None} \cup (0..MaxSend) : RawSend(r)

SendProgress == \E r \in 1..MaxSend : RawSend(r)

SendSpec == Init /\ [][SendNext]_vars

\* the transport takes at least one byte again and again, the caller's thread runs
FairSendSpec ==
    /\ SendSpec
    /\ WF_vars(SendLoop)
    /\ SF_vars(SendProgress)

\* =================================================================== claims
\* a recv call has completed and no later call has started
RecvReturned == pc = "idle" /\ reason # "none"

\* the value the checker gives for the carryover the call started with
CarryN == CallChecker(content_checker, carry0)

\* C1: every completed recv(max_bytes) has returned at most max_bytes bytes,
\* whatever the configuration and whatever carryover the call started with.
C1_Bound == RecvReturned => Len(ret) <= max_bytes

\* C2: between calls, everything recv has returned, in call order, followed
\* by the carryover buffer, is exactly what the raw reads have handed over,
\* in arrival order.
C2_Conservation == pc = "idle" => returned \o leftover = wire

\* a later call has delivered bytes that an earlier call deferred
C2_Witness ==
    /\ RecvReturned
    /\ carry0 # << >>
    /\ reason = "checker"
    /\ Len(returned) > Len(ret)
    /\ Len(wire) = MaxWire

\* C3 (as stated): a call whose carryover alone satisfies the checker
\* returns its first n bytes without any raw read.
C3_NoRead ==
    (RecvReturned /\ Len(carry0) < max_bytes /\ CheckerFires(content_checker, carry0))
        => (reads = 0 /\ ret = Take(carry0, CarryN))

\* C3 (amended): such a call still issues a raw read before it consults the
\* checker; when the reads of the call deliver nothing, it returns the first
\* n bytes of the carryover after exactly one raw read and keeps the rest.
C3_OneRead ==
    (RecvReturned /\ Len(carry0) < max_bytes /\ CheckerFires(content_checker, carry0))
        => /\ reads >= 1
           /\ data = carry0 => /\ reads = 1
                               /\ reason = "checker"
                               /\ ret = Take(carry0, CarryN)
                               /\ leftover = Drop(carry0, CarryN)

\* a call that started from a two-byte carryover holding a whole message and
\* read nothing new
C3_Witness ==
    /\ RecvReturned
    /\ Len(carry0) = 2
    /\ Len(carry0) < max_bytes
    /\ CheckerFires(content_checker, carry0)
    /\ data = carry0
    /\ leftover # << >>

\* C4: with silence framing alone (separator time above the poll floor, no
\* hard timeout, no checker, no carryover), once a burst shorter than
\* max_bytes has been read and raw reads keep coming back empty within the
\* floor, recv does not go on looping after message_separator_time has passed
\* since the last byte: it has returned the burst.
C4_SilenceEnds ==
    ( /\ message_separator_time # None
      /\ message_separator_time > Floor
      /\ timeout = None
      /\ content_checker = "none"
      /\ carry0 = << >>
      /\ quiet
      /\ reads >= 1
      /\ pc = "loop"
      /\ 0 < Len(data) /\ Len(data) < max_bytes )
        => clock - last_arrival < message_separator_time

\* the time since the start of the call, at the end of a read iteration
Elapsed == clock - start_time

\* a read iteration of the current (or last) call has just ended
IterationEnded == reads >= 1 /\ pc \in {"loop", "idle"}

\* C5 (as stated): the first read iteration that ends with the hard timeout
\* elapsed ends the call, which returns the whole working buffer.
C5_WholeBuffer ==
    (timeout # None /\ IterationEnded /\ Elapsed >= timeout)
        => (RecvReturned /\ ret = data /\ leftover = << >>)

\* C5 (amended): the first read iteration that ends with the hard timeout
\* elapsed ends the call; it returns the whole working buffer and leaves no
\* carryover, unless the content checker gave n > 0 in that same iteration,
\* in which case it returns buffer[:n] and carries buffer[n:] over.  So a call
\* under a hard timeout starts no further raw read once the timeout has
\* elapsed: it is over one raw read after the timeout at the latest.
C5_HardTimeout ==
    /\ (timeout # None /\ IterationEnded /\ Elapsed >= timeout)
        => /\ RecvReturned
           /\ reason \in {"timeout", "checker"}
           /\ reason = "timeout" => (ret = data /\ leftover = << >>)
           /\ reason = "checker" =>
                 /\ CheckerFires(content_checker, data)
                 /\ ret = Take(data, CallChecker(content_checker, data))
                 /\ leftover = Drop(data, CallChecker(content_checker, data))
    /\ (timeout # None /\ pc = "read" /\ reads >= 1) => Elapsed < timeout

\* under the fairness of FairSpec (raw reads return, time does not stand
\* still) every recv call under a hard timeout terminates
C5_Terminates == (timeout # None /\ pc # "idle") ~> (pc = "idle")

\* data was still arriving and the buffer was short of max_bytes when the hard
\* timeout ended the call
C5_Witness ==
    /\ RecvReturned
    /\ reason = "timeout"
    /\ reads >= 2
    /\ last_arrival = clock
    /\ 0 < Len(ret) /\ Len(ret) < max_bytes

\* C6: under message_separator_time, a call in which every gap between
\* arrivals (and from the start of the call to the first arrival) stayed
\* below message_separator_time does not return by the silence rule; it ends
\* by the buffer being full, by the hard timeout or by the checker.  A byte
\* arrives at the instant the raw read that delivers it returns.
C6_Trickle ==
    (RecvReturned /\ message_separator_time # None /\ trickle)
        => reason \in {"full", "timeout", "checker"}

\* bytes trickled in for longer than message_separator_time in total and the
\* call ended only when the buffer was full
C6_Witness ==
    /\ RecvReturned
    /\ message_separator_time # None
    /\ trickle
    /\ reason = "full"
    /\ reads >= 2
    /\ clock > message_separator_time

\* the minimum of the floor and the configured timeouts, unset ones left out
MinConfigured(m, t) ==
    Min2(Floor, Min2(IF m = None THEN Floor ELSE m, IF t = None THEN Floor ELSE t))

\* C7: during every recv call the transport's poll timeout is the minimum of
\* the floor and the configured timeouts (unset ones excluded), a finite
\* positive duration.
C7_PollTimeout ==
    pc # "idle" =>
        /\ conn_timeout = MinConfigured(message_separator_time, timeout)
        /\ conn_timeout # None
        /\ conn_timeout > 0

\* C8: when the checker gives n > 0 for the working buffer B after a raw
\* read, the call ends at once with B[0:n] and the carryover becomes B[n:];
\* the next call's working buffer starts as exactly that carryover, and a raw
\* read only appends to the working buffer.
C8_Step ==
    /\ (pc = "check" /\ CheckerFires(content_checker, data)) =>
           /\ pc' = "idle"
           /\ ret' = Take(data, CallChecker(content_checker, data))
           /\ leftover' = Drop(data, CallChecker(content_checker, data))
           /\ ret' \o leftover' = data
    /\ (pc = "idle" /\ pc' = "loop") => (data' = leftover /\ leftover' = << >>)
    /\ (pc = "read" /\ pc' = "check") =>
           (Len(data') >= Len(data) /\ Take(data', Len(data)) = data)

C8_Split == [][C8_Step]_vars

\* a call that started from carryover was ended by the checker inside the
\* buffer, leaving a new carryover
C8_Witness ==
    /\ RecvReturned
    /\ reason = "checker"
    /\ carry0 # << >>
    /\ leftover # << >>
    /\ Len(data) > Len(carry0)

\* what a send call in progress has got the transport to accept is the part
\* of the payload before bytes_sent; a completed send has returned len(data)
\* with the whole payload accepted, and empty data costs no raw send
C9_Safe ==
    /\ tx = Take(sdata, bytes_sent)
    /\ bytes_sent <= Len(sdata)
    /\ spc = "idle" =>
          /\ sret = Len(sdata)
          /\ tx = sdata
          /\ sdata = << >> => raw_sends = 0

C10_NoImplicitTimeout ==
    (timeout = None /\ message_separator_time = None /\ content_checker = "none")
        => (RecvReturned => (reason = "full" /\ ret = data /\ Len(ret) >= max_bytes))

\* a call without any framing is still looping, short of max_bytes, after
\* several raw reads and as much time as the model counts
C10_Witness ==
    /\ timeout = None /\ message_separator_time = None /\ content_checker = "none"
    /\ pc = "loop"
    /\ reads = MaxReads
    /\ clock = MaxTime
    /\ Len(data) < max_bytes

\* C11: a recv call that ends by the hard timeout, by the silence rule or by
\* the buffer having reached max_bytes returns the whole working buffer
\* (possibly empty) and leaves the carryover empty; between calls the
\* carryover is non-empty only directly after a call the checker ended.
C11_WholeOrCarry ==
    /\ (RecvReturned /\ reason \in {"timeout", "silence", "full"})
          => (ret = data /\ leftover = << >>)
    /\ (pc = "idle" /\ leftover # << >>) => reason = "checker"

\* a call that took over a carryover was ended by a timeout before it was full
C11_Witness ==
    /\ RecvReturned
    /\ reason \in {"timeout", "silence"}
    /\ carry0 # << >>
    /\ Len(ret) < max_bytes
    /\ leftover = << >>

\* C12 (as stated): in scenario A the first recv(10) returns b"ABC\n" and
\* leaves no carryover, and the next recv(10) returns b"DEF".
C12_ScenarioStated ==
    RecvReturned =>
        \/ (returned = << 65, 66, 67, NL >> /\ ret = returned /\ leftover = << >>)
        \/ (returned = ScenarioStream /\ ret = << 68, 69, 70 >>)

\* C12 (amended): in scenario A the first recv(10) returns b"ABC", the n = 3
\* bytes before the newline, and leaves the carryover b"\n"; the following
\* recv(10) starts from the carryover b"\n" and does not return b"DEF": with
\* the newline at index 0 the checker gives 0 for every buffer of that call,
\* which goes on reading.
C12_ScenarioA ==
    /\ RecvReturned =>
          /\ ret = << 65, 66, 67 >>
          /\ returned = ret
          /\ leftover = << NL >>
    /\ (pc # "idle" /\ returned # << >>) =>
          /\ carry0 = << NL >>
          /\ data = Take(<< NL, 68, 69, 70 >>, Len(data))
          /\ content_check_newline(data) = 0

\* the second call has read b"DEF" and is still looping
C12_Witness ==
    /\ pc = "loop"
    /\ returned = << 65, 66, 67 >>
    /\ data = << NL, 68, 69, 70 >>
    /\ reads >= 1

\* C13: when the raw read or the checker raises during a recv call, the
\* bytes that were in the carryover when the call started are in the
\* carryover again afterwards.
C13_CarryoverSurvives == (pc = "idle" /\ reason = "raised") => leftover = carry0

\* C14: the silence reference time is moved on at the top of an iteration
\* only if the buffer grew in the iteration before, so that while a raw read
\* is under way it is the time of the last byte arrival (the start of the
\* call before any arrival).
C14_TimerIsLastArrival == pc = "read" => last_byte_time = last_arrival

\* C15: the checker sees the whole working buffer after every raw read and
\* goes before the timeout tests: no read iteration ends with a buffer for
\* which the checker gives n > 0 other than by returning buffer[:n] and
\* carrying buffer[n:] over, also when the hard or the silence timeout has
\* elapsed in that iteration.
C15_CheckerFirst ==
    ( /\ content_checker # "none"
      /\ IterationEnded
      /\ CallChecker(content_checker, data) > 0 )
        => /\ RecvReturned
           /\ reason = "checker"
           /\ ret = Take(data, CallChecker(content_checker, data))
           /\ leftover = Drop(data, CallChecker(content_checker, data))

\* the checker ended, inside the buffer, a call that started from carryover
\* and in whose last iteration both timeouts had elapsed as well
C15_Witness ==
    /\ RecvReturned
    /\ reason = "checker"
    /\ timeout # None /\ Elapsed >= timeout
    /\ message_separator_time # None
    /\ clock - last_byte_time >= message_separator_time
    /\ carry0 # << >>
    /\ Len(data) > Len(carry0)
    /\ leftover # << >>

\* C18: with message_separator_time alone (no hard timeout), no carryover and
\* a transport that delivers nothing, the silence is measured from the start
\* of the call: the call goes on while less than message_separator_time has
\* passed since its start and returns the empty string at the end of the
\* first read iteration at which that time has passed.
C18_EmptySilence ==
    ( /\ message_separator_time # None
      /\ timeout = None
      /\ carry0 = << >>
      /\ data = << >>
      /\ IterationEnded )
        => /\ Elapsed >= message_separator_time
                => (RecvReturned /\ reason = "silence" /\ ret = << >> /\ leftover = << >>)
           /\ Elapsed < message_separator_time => pc = "loop"

\* an empty call was ended by the silence rule after several empty raw reads
C18_Witness ==
    /\ RecvReturned
    /\ reason = "silence"
    /\ message_separator_time = 3
    /\ timeout = None
    /\ carry0 = << >>
    /\ ret = << >>
    /\ reads >= 2

\* C16: send, open, close and set_logger leave the carryover and the framing
\* configuration as they were, and only a step of recv changes the carryover;
\* the carryover held at a close() is still held after the open() that
\* follows, and the next recv call starts its buffer with it.
C16_Step ==
    /\ Config' = Config
    /\ (sendVars' # sendVars \/ conn_open' # conn_open \/ logger' # logger)
           => leftover' = leftover
    /\ leftover' # leftover
           => (pc = "idle" /\ pc' = "loop") \/ (pc = "check" /\ pc' = "idle")

C16_Kept ==
    /\ kept[1] \in {1, 2} => leftover = kept[2]
    /\ kept[1] = 3 =>
          /\ carry0 = kept[2]
          /\ pc # "idle" => Take(data, Len(carry0)) = carry0

C16_Frame == [][C16_Step]_vars /\ []C16_Kept

\* after a send and a set_logger, a recv call that started from the carryover
\* held across a close() and an open() has read more bytes behind it
C16_Witness ==
    /\ kept[1] = 3
    /\ kept[2] # << >>
    /\ pc = "check"
    /\ Len(data) > Len(carry0)
    /\ logger = "logger"
    /\ tx # << >>

\* C17: with one recv and one send in flight, a step of either changes
\* nothing the other reads or writes, so under every interleaving recv's
\* returned bytes and carryover account for exactly the bytes the transport
\* delivered, and send hands the transport exactly its payload and returns
\* its length, as each does when run alone.
C17_Step ==
    /\ sendVars' # sendVars => recvVars' = recvVars
    /\ recvVars' # recvVars => sendVars' = sendVars

C17_Outcome ==
    /\ pc = "idle" => returned \o leftover = wire
    /\ pc # "idle" => Take(data, Len(carry0)) = carry0
    /\ tx = Take(sdata, bytes_sent)
    /\ spc = "idle" => tx = sdata /\ sret = Len(sdata)

C17_Interleaved == [][C17_Step]_vars /\ []C17_Outcome

\* a recv call that began while a send was in flight has returned bytes and
\* left a carryover, and the send, not yet returned, made progress meanwhile
C17_Witness ==
    /\ pc = "idle"
    /\ reason = "checker"
    /\ leftover # << >>
    /\ spc = "send"
    /\ 0 < bytes_sent
    /\ Len(sdata) = MaxConcSend

====
